---- MODULE Spec2Model ----
(***************************************************************************)
(* s3collapse.py: collapse() downloads every key under a prefix, appends   *)
(* them to a local file, uploads that file to one key and deletes the      *)
(* downloaded keys; collapse_s3() and collapse_ctrail() call collapse()    *)
(* once per time bucket of a date range.                                   *)
(*                                                                         *)
(* Strings are sequences of one-character strings, byte strings are        *)
(* sequences of integers.  Python's None is the empty sequence and a       *)
(* present value v is <<v>>.                                               *)
(***************************************************************************)
EXTENDS Integers, Sequences, FiniteSets, TLC

VARIABLES
    store,       \* the bucket: key name -> bytes, or NoObj
    files,       \* the local filesystem: path -> bytes, or NoFile
    args,        \* arguments of the running collapse() call (of the isGzip()
                 \* call in SpecGzip)
    pc,          \* position inside collapse() (inside isGzip() in SpecGzip)
    inKeys,      \* the listing the current for-loop iterates
    idx,         \* index of the loop's next element
    inSize,      \* collapse(): inSize
    wasGzip,     \* collapse(): wasGzip (None, <<TRUE>>, <<FALSE>>)
    outSize,     \* collapse(): outSize (None until line 75)
    outKeySize,  \* collapse(): outKeySize (None until line 84)
    result,      \* how the call ended ("running" until then)
    hist,        \* what the running call has done so far (what isGzip()
                 \* returned and left of fd in SpecGzip)
    run,         \* number of the collapse() call in this behaviour
    prev,        \* result of the previous collapse() call
    drv          \* the running range driver (collapse_s3, collapse_ctrail), if any

vars == <<store, files, args, pc, inKeys, idx, inSize, wasGzip, outSize,
          outKeySize, result, hist, run, prev, drv>>

----------------------------------------------------------------------------
(* Bounds of the model *)

NumSrc == 2     \* candidate source keys under the prefix
MaxCeil == 2    \* outMaxSize ranges over 0..MaxCeil
MaxRuns == 2    \* collapse() calls in a row with the same arguments

----------------------------------------------------------------------------
(* Values *)

None == <<>>
NoObj == <<-1>>
NoFile == <<-2>>

Max(a, b) == IF a >= b THEN a ELSE b

\* byte strings the objects may hold
Contents == { <<>>, <<31>>, <<139, 31>>, <<31, 139>>, <<31, 139, 8>> }

\* a file name handed to isGzip: a str, or something that is not a str
Str(s) == [isStr |-> TRUE, val |-> s]
NotStr == [isStr |-> FALSE, val |-> <<>>]

InPrefix == <<"p", "-">>
CandidateKeys == << <<"p", "-", "a", ".", "g", "z">>,
                    <<"p", "-", "b", ".", "g", "z">>,
                    <<"p", "-", "c">>,
                    <<"p", "-", "d", ".", "g", "z">> >>
SrcKeys == { CandidateKeys[i] : i \in 1..NumSrc }
OutBeside == <<"p", "_", "o">>     \* an output key the prefix does not match
OutUnder == <<"p", "-", "z">>      \* an output key the prefix matches
OtherKey == <<"o", "-", "x">>      \* an object outside the prefix
OtherData == <<8>>
LocalPath == <<"f">>

----------------------------------------------------------------------------
(* The object store client (boto): list, get *)

\* the characters the key names use, in byte order
Alphabet == <<"-", ".", "/", "0", "1", "2", "3", "4", "5", "6", "7", "8", "9",
              "A", "C", "L", "S", "T", "W", "_", "a", "b", "c", "d", "e", "f",
              "g", "i", "l", "m", "o", "p", "r", "s", "t", "u", "x", "z">>

\* the rank of a character in byte order
Ord(c) == CHOOSE i \in 1..Len(Alphabet) : Alphabet[i] = c

\* a < b in the store's key order (byte-wise lexicographic)
RECURSIVE KeyLess(_, _)
KeyLess(a, b) ==
    IF a = <<>> THEN b # <<>>
    ELSE IF b = <<>> THEN FALSE
    ELSE IF Ord(Head(a)) # Ord(Head(b)) THEN Ord(Head(a)) < Ord(Head(b))
    ELSE KeyLess(Tail(a), Tail(b))

\* str.startswith: the prefix filter of bucket.list(prefix)
StartsWith(s, p) == Len(p) <= Len(s) /\ SubSeq(s, 1, Len(p)) = p

RECURSIVE SortKeys(_)
SortKeys(S) ==
    IF S = {} THEN <<>>
    ELSE LET k == CHOOSE x \in S : \A y \in S \ {x} : KeyLess(x, y)
         IN <<k>> \o SortKeys(S \ {k})

\* s3bucket.list(prefix) read to its end: the keys present under the prefix, in
\* key order, each with the size the store reports for it
ListKeys(st, prefix) ==
    LET names == SortKeys({k \in DOMAIN st : st[k] # NoObj /\ StartsWith(k, prefix)})
    IN [i \in 1..Len(names) |-> [name |-> names[i], size |-> Len(st[names[i]])]]

\* what a transfer of `data` may deliver: all of it, or all but its last byte
Delivered(data) ==
    IF data = NoObj \/ data = NoFile THEN {}
    ELSE {data} \cup (IF Len(data) > 0 THEN {SubSeq(data, 1, Len(data) - 1)} ELSE {})

----------------------------------------------------------------------------
(* isGzip(fd, fn), a file object being [data, pos] *)

\* fd.read(n)
ReadBytes(fd, n) ==
    LET last == IF fd.pos + n <= Len(fd.data) THEN fd.pos + n ELSE Len(fd.data)
    IN [bytes |-> SubSeq(fd.data, fd.pos + 1, last),
        fd |-> [fd EXCEPT !.pos = Max(fd.pos, last)]]

\* fd.seek(p)
Seek(fd, p) == [fd EXCEPT !.pos = p]

\* fn[-3:len(fn)]
LastThree(fn) == SubSeq(fn, Max(1, Len(fn) - 2), Len(fn))

HasMagic(byte1, byte2) == byte1 = <<31>> /\ byte2 = <<139>>

HasExtension(fn) == IF fn.isStr THEN LastThree(fn.val) = <<".", "g", "z">> ELSE TRUE

\* variant: fd is left where the two reads ended
PositionLeft(fd, fdPosition) == fd

RestorePosition(fd, fdPosition) == Seek(fd, fdPosition)

\* returns [ret |-> the boolean isGzip returns, fd |-> the file object afterwards]
isGzip(fd, fn) ==
    LET fdPosition == fd.pos
        r1 == ReadBytes(Seek(fd, 0), 1)
        r2 == ReadBytes(r1.fd, 1)
        fdEnd == RestorePosition(r2.fd, fdPosition)
    IN [ret |-> HasMagic(r1.bytes, r2.bytes) /\ HasExtension(fn), fd |-> fdEnd]

----------------------------------------------------------------------------
(* collapse(): helpers *)

ChunkSize == 262144

\* the read/write loop of lines 64-67: the bytes it appends to outFD
RECURSIVE CopyChunks(_)
CopyChunks(fd) ==
    LET r == ReadBytes(fd, ChunkSize)
    IN IF Len(r.bytes) = 0 THEN <<>> ELSE r.bytes \o CopyChunks(r.fd)

\* variant: only a plain object after compressed ones is refused
IsMixedOneWay(g, was) == was /\ ~g

IsMixed(g, was) == g # was

\* variant: a file of exactly outMaxSize bytes is refused too
OverCeilingAtLimit(outMaxSize, pos) == outMaxSize > 0 /\ pos >= outMaxSize

OverCeiling(outMaxSize, pos) == outMaxSize > 0 /\ pos > outMaxSize

\* variant: the double-check of line 76 is left out
LocalSizeUnchecked(inS, outS) == TRUE

\* variant: only a file larger than expected is refused
LocalSizeAtMost(inS, outS) == outS <= inS

LocalSizeOk(inS, outS) == inS = outS

\* variant: a missing size is not taken for 0
SizeOrMissing(r) == IF r = None THEN -1 ELSE r[1]

SizeOrZero(r) == IF r = None THEN 0 ELSE r[1]

\* variant: the check of line 87 is left out
UploadSizeUnchecked(keySize, outS) == TRUE

UploadSizeOk(keySize, outS) == keySize = outS

\* the file at a path, and the bucket's object at a key
FileAt(fl, path) == IF path \in DOMAIN fl THEN fl[path] ELSE NoFile
ObjAt(st, key) == IF key \in DOMAIN st THEN st[key] ELSE NoObj

\* variant: open(path, mode='ab'), a file that exists keeps its bytes
CreateFileAppending(fl, path) ==
    [q \in DOMAIN fl \cup {path} |->
        IF q = path /\ FileAt(fl, path) = NoFile THEN <<>> ELSE fl[q]]

\* open(path, mode='wb'): the file exists and is empty
CreateFile(fl, path) ==
    [q \in DOMAIN fl \cup {path} |-> IF q = path THEN <<>> ELSE fl[q]]

\* the store writes `data` at `key`
PutObject(st, key, data) ==
    [k \in DOMAIN st \cup {key} |-> IF k = key THEN data ELSE st[k]]

\* variant: the file is left in place
RemoveFileSkipped(fl, path) == fl

\* os.remove(path)
RemoveFile(fl, path) == [fl EXCEPT ![path] = NoFile]

\* variant: the key is left in place
DeleteObjectSkipped(st, name) == st

\* inKey.delete()
DeleteObject(st, name) == [st EXCEPT ![name] = NoObj]

\* variant: replace=True, boto's default
KeyNeverBlocksUpload(st, key) == FALSE

\* set_contents_from_filename(..., replace=False): an existing key is not written
KeyBlocksUpload(st, key) == ObjAt(st, key) # NoObj

----------------------------------------------------------------------------
(* collapse(s3bucket, inPrefix, outFile, outKey, outMaxSize) *)

NewHist(st, fl, a) ==
    [store0 |-> st,              \* the bucket when the call began
     before |-> st,              \* the bucket when the call before this one began
     file0 |-> FileAt(fl, a.outFile),    \* the file at outFile when the call began
     listed |-> None,            \* <<the listing of line 32>>
     got |-> <<>>,               \* [name, data] of each download
     classes |-> <<>>,           \* isGzip of each downloaded object
     appended |-> 0,             \* bytes written to outFD
     uploaded |-> None,          \* <<the bytes handed to the upload>>
     putRet |-> None,            \* <<what the upload returned>>
     wrote |-> FALSE,            \* the upload wrote the object at outKey
     deleted |-> <<>>,           \* the keys deleted, in order
     added |-> <<>>]             \* the keys another client added meanwhile

\* the call ends: by return ("Empty", "Success") or by an exception
Finish(r) ==
    /\ pc' = "done"
    /\ result' = r

\* lines 31-38: open outFile for writing, list the prefix, return if it is empty
Open ==
    /\ pc = "open"
    /\ LET created == CreateFile(files, args.outFile)
       IN \/ \* s3bucket.list raises
             /\ files' = created
             /\ Finish("StoreError")
             /\ UNCHANGED <<inSize, wasGzip, hist>>
          \/ LET keys == ListKeys(store, args.inPrefix)
             IN /\ hist' = [hist EXCEPT !.listed = <<keys>>]
                /\ IF Len(keys) = 0
                   THEN /\ files' = RemoveFile(created, args.outFile)
                        /\ Finish("Empty")
                        /\ UNCHANGED <<inSize, wasGzip>>
                   ELSE /\ files' = created
                        /\ inSize' = 0
                        /\ wasGzip' = None
                        /\ pc' = "for_download"
                        /\ UNCHANGED result
    /\ UNCHANGED <<store, args, inKeys, idx, outSize, outKeySize, run, prev, drv>>

\* lines 39-42: the for statement starts iterating the listing
StartDownloads ==
    /\ pc = "for_download"
    /\ \/ /\ Finish("StoreError")
          /\ UNCHANGED <<inKeys, idx>>
       \/ /\ inKeys' = ListKeys(store, args.inPrefix)
          /\ idx' = 1
          /\ pc' = "download"
          /\ UNCHANGED result
    /\ UNCHANGED <<store, files, args, inSize, wasGzip, outSize, outKeySize, hist,
                   run, prev, drv>>

\* lines 42-72, one iteration: download a key, classify it, append it, check the
\* size ceiling
Download ==
    /\ pc = "download"
    /\ idx <= Len(inKeys)
    /\ LET inKey == inKeys[idx]
       IN /\ inSize' = inSize + inKey.size
          /\ \/ \* get_contents_to_file raises
                /\ Finish("StoreError")
                /\ UNCHANGED <<files, idx, wasGzip, hist>>
             \/ \E data \in Delivered(store[inKey.name]) :
                  LET tempFD == Seek([data |-> data, pos |-> Len(data)], 0)
                      first == isGzip(tempFD, Str(inKey.name))
                      fd1 == IF wasGzip = None THEN first.fd ELSE tempFD
                      was == IF wasGzip = None THEN <<first.ret>> ELSE wasGzip
                      again == isGzip(fd1, Str(inKey.name))
                      chunk == CopyChunks(again.fd)
                      out == files[args.outFile] \o chunk
                      h == [hist EXCEPT !.got = Append(@, [name |-> inKey.name,
                                                             data |-> data]),
                                        !.classes = Append(@, again.ret)]
                  IN /\ wasGzip' = was
                     /\ IF IsMixed(again.ret, was[1])
                        THEN /\ Finish("MixedEncoding")
                             /\ hist' = h
                             /\ UNCHANGED <<files, idx>>
                        ELSE /\ hist' = [h EXCEPT !.appended = @ + Len(chunk)]
                             /\ IF OverCeiling(args.outMaxSize, Len(out))
                                THEN /\ files' = RemoveFile(files, args.outFile)
                                     /\ Finish("SizeCeiling")
                                     /\ UNCHANGED idx
                                ELSE /\ files' = [files EXCEPT ![args.outFile] = out]
                                     /\ idx' = idx + 1
                                     /\ UNCHANGED <<pc, result>>
    /\ UNCHANGED <<store, args, inKeys, outSize, outKeySize, run, prev, drv>>

\* lines 73-78: the loop is over; compare the file's size with the sizes listed
CheckLocalSize ==
    /\ pc = "download"
    /\ idx > Len(inKeys)
    /\ LET size == Len(files[args.outFile])
       IN /\ outSize' = <<size>>
          /\ IF LocalSizeOk(inSize, size)
             THEN pc' = "upload" /\ UNCHANGED result
             ELSE Finish("LocalSizeMismatch")
    /\ UNCHANGED <<store, files, args, inKeys, idx, inSize, wasGzip, outKeySize,
                   hist, run, prev, drv>>

\* lines 83-88: set_contents_from_filename(outFile, replace=False) and the check
\* of the size it returns
Upload ==
    /\ pc = "upload"
    /\ LET body == files[args.outFile]
           sent == [hist EXCEPT !.uploaded = <<body>>]
           Verify(ret) ==
               /\ outKeySize' = <<SizeOrZero(ret)>>
               /\ IF UploadSizeOk(SizeOrZero(ret), outSize[1])
                  THEN pc' = "for_delete" /\ UNCHANGED result
                  ELSE Finish("UploadSizeMismatch")
       IN \/ \* the request raises, nothing is written
             /\ Finish("StoreError")
             /\ hist' = sent
             /\ UNCHANGED <<store, outKeySize>>
          \/ \* replace=False and the key exists: nothing is written, None returned
             /\ KeyBlocksUpload(store, args.outKey)
             /\ hist' = [sent EXCEPT !.putRet = <<None>>]
             /\ Verify(None)
             /\ UNCHANGED store
          \/ /\ ~KeyBlocksUpload(store, args.outKey)
             /\ \E stored \in Delivered(body) :
                \E ret \in {<<Len(stored)>>, None} :
                  /\ store' = PutObject(store, args.outKey, stored)
                  /\ hist' = [sent EXCEPT !.putRet = <<ret>>, !.wrote = TRUE]
                  /\ Verify(ret)
    /\ UNCHANGED <<files, args, inKeys, idx, inSize, wasGzip, outSize, run, prev, drv>>

\* lines 90-91: the second for statement starts iterating the listing
StartDeletes ==
    /\ pc = "for_delete"
    /\ \/ /\ Finish("StoreError")
          /\ UNCHANGED <<inKeys, idx>>
       \/ /\ inKeys' = ListKeys(store, args.inPrefix)
          /\ idx' = 1
          /\ pc' = "delete"
          /\ UNCHANGED result
    /\ UNCHANGED <<store, files, args, inSize, wasGzip, outSize, outKeySize, hist,
                   run, prev, drv>>

\* lines 91-92, one iteration: inKey.delete()
DeleteKey ==
    /\ pc = "delete"
    /\ idx <= Len(inKeys)
    /\ \/ /\ Finish("StoreError")
          /\ UNCHANGED <<store, idx, hist>>
       \/ /\ store' = DeleteObject(store, inKeys[idx].name)
          /\ hist' = [hist EXCEPT !.deleted = Append(@, inKeys[idx].name)]
          /\ idx' = idx + 1
          /\ UNCHANGED <<pc, result>>
    /\ UNCHANGED <<files, args, inKeys, inSize, wasGzip, outSize, outKeySize, run,
                   prev, drv>>

\* line 94: os.remove(outFile), then the call returns
RemoveLocal ==
    /\ pc = "delete"
    /\ idx > Len(inKeys)
    /\ files' = RemoveFile(files, args.outFile)
    /\ Finish("Success")
    /\ UNCHANGED <<store, args, inKeys, idx, inSize, wasGzip, outSize, outKeySize,
                   hist, run, prev, drv>>

\* the caller calls collapse() again with the same arguments
Rerun ==
    /\ drv.pc = "none"
    /\ pc = "done"
    /\ run < MaxRuns
    /\ run' = run + 1
    /\ prev' = result
    /\ pc' = "open"
    /\ result' = "running"
    /\ inKeys' = <<>>
    /\ idx' = 1
    /\ inSize' = 0
    /\ wasGzip' = None
    /\ outSize' = None
    /\ outKeySize' = None
    /\ hist' = [NewHist(store, files, args) EXCEPT !.before = hist.store0]
    /\ UNCHANGED <<store, files, args, drv>>

----------------------------------------------------------------------------
(* A call of collapse() on a bucket holding any objects under the prefix *)

NoDriver == [pc |-> "none"]

ObjStates == Contents \cup {NoObj}
PreOut == {NoObj, <<>>, <<31, 139>>}
PreFile == {NoFile, <<139>>}

Init ==
    /\ \E src \in [SrcKeys -> ObjStates], pre \in PreOut,
          key \in {OutBeside, OutUnder}, ceil \in 0..MaxCeil, fl \in PreFile :
         /\ args = [inPrefix |-> InPrefix, outFile |-> LocalPath, outKey |-> key,
                    outMaxSize |-> ceil]
         /\ store = [k \in SrcKeys \cup {OutBeside, OutUnder, OtherKey} |->
                        IF k \in SrcKeys THEN src[k]
                        ELSE IF k = key THEN pre
                        ELSE IF k = OtherKey THEN OtherData
                        ELSE NoObj]
         /\ files = [f \in {LocalPath} |-> fl]
         /\ hist = NewHist(store, files, args)
    /\ pc = "open"
    /\ inKeys = <<>>
    /\ idx = 1
    /\ inSize = 0
    /\ wasGzip = None
    /\ outSize = None
    /\ outKeySize = None
    /\ result = "running"
    /\ run = 1
    /\ prev = "none"
    /\ drv = NoDriver

Next ==
    \/ Open
    \/ StartDownloads
    \/ Download
    \/ CheckLocalSize
    \/ Upload
    \/ StartDeletes
    \/ DeleteKey
    \/ RemoveLocal
    \/ Rerun

Spec == Init /\ [][Next]_vars

----------------------------------------------------------------------------
(* Dates.  A datetime is the number of seconds since 2014-07-01 00:00:00; every
   instant of the model lies in July 2014. *)

MaxDay == 2      \* the dates given lie in days 0..MaxDay
MaxSteps == 3    \* a range given spans at most MaxSteps steps of its increment

SecondsPerMinute == 60
SecondsPerHour == 3600
SecondsPerDay == 86400

DateTime(t) == [kind |-> "datetime", t |-> t]
NoDate == [kind |-> "None", t |-> 0]

\* datetime.today()
Now == DateTime(MaxDay * SecondsPerDay + 6 * SecondsPerHour)

\* datetime(dtm.year, dtm.month, dtm.day)
Midnight(t) == t - (t % SecondsPerDay)

Digits == <<"0", "1", "2", "3", "4", "5", "6", "7", "8", "9">>
TwoDigits(n) == <<Digits[(n \div 10) + 1], Digits[(n % 10) + 1]>>

\* the fields of strftime
FmtY(t) == <<"2", "0", "1", "4">>
Fmtm(t) == <<"0", "7">>
Fmtd(t) == TwoDigits((t \div SecondsPerDay) + 1)
FmtH(t) == TwoDigits((t % SecondsPerDay) \div SecondsPerHour)
FmtM(t) == TwoDigits((t % SecondsPerHour) \div SecondsPerMinute)
FmtS(t) == TwoDigits(t % SecondsPerMinute)

Dash == <<"-">>
Collapsed == <<"_", "c", "o", "l", "l", "a", "p", "s", "e", "d">>

S3LogIncrements == {"d", "H", "M", "S", "m", "Y"}

\* dtm_to_s3_log(dtm, increment), for an increment of S3LogIncrements (any
\* other raises)
dtm_to_s3_log(t, increment) ==
    CASE increment = "d" -> FmtY(t) \o Dash \o Fmtm(t) \o Dash \o Fmtd(t)
      [] increment = "H" -> FmtY(t) \o Dash \o Fmtm(t) \o Dash \o Fmtd(t) \o Dash
                            \o FmtH(t)
      [] increment = "M" -> FmtY(t) \o Dash \o Fmtm(t) \o Dash \o Fmtd(t) \o Dash
                            \o FmtH(t) \o Dash \o FmtM(t)
      [] increment = "S" -> FmtY(t) \o Dash \o Fmtm(t) \o Dash \o Fmtd(t) \o Dash
                            \o FmtH(t) \o Dash \o FmtM(t) \o Dash \o FmtS(t)
      [] increment = "m" -> FmtY(t) \o Dash \o Fmtm(t)
      [] increment = "Y" -> FmtY(t)

\* os.path.join(dir, '')
JoinEmpty(dir) ==
    IF dir = <<>> \/ dir[Len(dir)] = "/" THEN dir ELSE dir \o <<"/">>

\* tempfile.gettempdir()
TempDir == <<"/", "t", "m", "p">>

\* the default of outMaxSize, 2*1024*1024*1024, less one: the largest integer
\* TLC represents; the files of the model are a few bytes long
DefaultMaxSize == 2147483647

----------------------------------------------------------------------------
(* The range drivers *)

StepIncrements == {"d", "H", "M"}

\* lines 203-208: the timedelta of an increment of StepIncrements
TimeStep(increment) ==
    CASE increment = "d" -> SecondsPerDay
      [] increment = "H" -> SecondsPerHour
      [] increment = "M" -> SecondsPerMinute

\* lines 212-217 and 270-275: the defaults of dateStart and dateEnd
DefaultDates(dateStart, dateEnd) ==
    LET yesterdayEnd == DateTime(Midnight(Now.t) - 1)
        de == IF dateEnd = NoDate THEN yesterdayEnd ELSE dateEnd
        ds == IF dateEnd = NoDate /\ dateStart = NoDate
              THEN DateTime(Midnight(de.t)) ELSE dateStart
    IN [dateStart |-> ds, dateEnd |-> de]

\* line 219: the condition under which collapse_s3 refuses its dates
DatesWrong(dateStart, dateEnd) ==
    \/ dateStart.kind # "datetime"
    \/ dateStart.kind # dateEnd.kind
    \/ dateEnd.t < dateStart.t

\* variant: the range ends before dateEnd
BeforeEnd(cur, dateEnd) == cur < dateEnd

\* lines 230 and 278: the loop condition
InRange(cur, dateEnd) == cur <= dateEnd

\* the driver ends: by return ("returned") or by an exception
DriverEnds(r) == drv' = [drv EXCEPT !.pc = "done", !.result = r]

\* the driver calls collapse(s3bucket, inPrefix, outFile, outKey, outRRS=...)
CallCollapse(a) ==
    /\ args' = a
    /\ pc' = "open"
    /\ result' = "running"
    /\ inKeys' = <<>>
    /\ idx' = 1
    /\ inSize' = 0
    /\ wasGzip' = None
    /\ outSize' = None
    /\ outKeySize' = None
    /\ hist' = NewHist(store, files, a)
    /\ drv' = [drv EXCEPT !.pc = "call", !.calls = Append(@, a)]
    /\ UNCHANGED <<store, files, run, prev>>

CollapseVars == <<store, files, args, pc, inKeys, idx, inSize, wasGzip, outSize,
                  outKeySize, result, hist, run, prev>>

CollapseFailures == {"MixedEncoding", "SizeCeiling", "LocalSizeMismatch",
                     "UploadSizeMismatch", "StoreError"}

\* collapse_s3, lines 203-229
S3Start ==
    /\ drv.pc = "start"
    /\ drv.fn = "s3"
    /\ IF drv.increment \notin StepIncrements
       THEN DriverEnds("UndefinedIncrement")
       ELSE LET d == DefaultDates(drv.dateStart, drv.dateEnd)
            IN IF DatesWrong(d.dateStart, d.dateEnd)
               THEN DriverEnds("DatesWrong")
               ELSE drv' = [drv EXCEPT
                              !.pc = "loop",
                              !.timeStep = TimeStep(drv.increment),
                              !.dateStart = d.dateStart,
                              !.dateEnd = d.dateEnd,
                              !.s3inDir = JoinEmpty(@),
                              !.s3outDir = IF @ = None THEN <<JoinEmpty(drv.s3inDir)>>
                                           ELSE <<JoinEmpty(@[1])>>,
                              !.cur = d.dateStart]
    /\ UNCHANGED CollapseVars

\* collapse_s3, lines 230-236: the loop test and the call of collapse
S3Loop ==
    /\ drv.pc = "loop"
    /\ drv.fn = "s3"
    /\ IF InRange(drv.cur.t, drv.dateEnd.t)
       THEN LET prefix == dtm_to_s3_log(drv.cur.t, drv.increment)
            IN CallCollapse([inPrefix |-> drv.s3inDir \o prefix \o Dash,
                             outFile |-> JoinEmpty(TempDir) \o prefix \o Collapsed,
                             outKey |-> drv.s3outDir[1] \o prefix \o Collapsed,
                             outMaxSize |-> DefaultMaxSize])
       ELSE DriverEnds("returned") /\ UNCHANGED CollapseVars

\* collapse_s3, lines 236-237: collapse returns, or its exception ends the driver
S3Step ==
    /\ drv.pc = "call"
    /\ drv.fn = "s3"
    /\ pc = "done"
    /\ IF result \in CollapseFailures
       THEN drv' = [drv EXCEPT !.pc = "done", !.result = "CollapseFailed",
                               !.results = Append(@, result)]
       ELSE drv' = [drv EXCEPT !.pc = "loop",
                               !.results = Append(@, result),
                               !.cur = DateTime(@.t + drv.timeStep)]
    /\ UNCHANGED CollapseVars

CloudTrail == <<"C", "l", "o", "u", "d", "T", "r", "a", "i", "l">>
AWSLogs == <<"A", "W", "S", "L", "o", "g", "s">>
Slash == <<"/">>
Under == <<"_">>

\* line 280: 'AWSLogs/{}/CloudTrail/{}/{:%Y/%m/%d}/'
CtInDir(account, region, t) ==
    AWSLogs \o Slash \o account \o Slash \o CloudTrail \o Slash \o region \o Slash
        \o FmtY(t) \o Slash \o Fmtm(t) \o Slash \o Fmtd(t) \o Slash

\* line 283: '{}_CloudTrail_{}_{:%Y%m%d}T'
CtInFile(account, region, t) ==
    account \o Under \o CloudTrail \o Under \o region \o Under
        \o FmtY(t) \o Fmtm(t) \o Fmtd(t) \o <<"T">>

\* line 289: 'AWSLogs_collapsed/{}/CloudTrail/{}/'
CtOutDir(account, region) ==
    AWSLogs \o Collapsed \o Slash \o account \o Slash \o CloudTrail \o Slash
        \o region \o Slash

\* line 292: '{}_CloudTrail_{}_{:%Y%m%d}_collapsed'
CtOutFile(account, region, t) ==
    account \o Under \o CloudTrail \o Under \o region \o Under
        \o FmtY(t) \o Fmtm(t) \o Fmtd(t) \o Collapsed

\* collapse_ctrail, lines 270-277
CtStart ==
    /\ drv.pc = "start"
    /\ drv.fn = "ctrail"
    /\ LET d == DefaultDates(drv.dateStart, drv.dateEnd)
       IN drv' = [drv EXCEPT !.pc = "loop",
                             !.timeStep = SecondsPerDay,
                             !.dateStart = d.dateStart,
                             !.dateEnd = d.dateEnd,
                             !.cur = d.dateStart]
    /\ UNCHANGED CollapseVars

\* collapse_ctrail, lines 278-295: the loop test and the call of collapse
CtLoop ==
    /\ drv.pc = "loop"
    /\ drv.fn = "ctrail"
    /\ IF drv.cur.kind # "datetime" \/ drv.dateEnd.kind # "datetime"
       THEN \* dt <= dateEnd raises TypeError
            DriverEnds("TypeError") /\ UNCHANGED CollapseVars
       ELSE IF ~InRange(drv.cur.t, drv.dateEnd.t)
       THEN DriverEnds("returned") /\ UNCHANGED CollapseVars
       ELSE IF ~(drv.region.isStr /\ drv.account.isStr)
       THEN DriverEnds("RegionOrAccountMissing") /\ UNCHANGED CollapseVars
       ELSE LET t == drv.cur.t
                account == drv.account.val
                region == drv.region.val
                s3outDir == IF drv.s3outDir # None THEN drv.s3outDir[1]
                            ELSE CtOutDir(account, region)
            IN /\ CallCollapse(
                    [inPrefix |-> CtInDir(account, region, t)
                                    \o CtInFile(account, region, t),
                     outFile |-> CtOutFile(account, region, t),
                     outKey |-> s3outDir \o CtOutFile(account, region, t),
                     outMaxSize |-> DefaultMaxSize])

\* collapse_ctrail, lines 295-296: collapse returns, or its exception ends the
\* driver
CtStep ==
    /\ drv.pc = "call"
    /\ drv.fn = "ctrail"
    /\ pc = "done"
    /\ IF result \in CollapseFailures
       THEN drv' = [drv EXCEPT !.pc = "done", !.result = "CollapseFailed",
                               !.results = Append(@, result)]
       ELSE drv' = [drv EXCEPT !.pc = "loop",
                               !.results = Append(@, result),
                               !.cur = DateTime(@.t + drv.timeStep)]
    /\ UNCHANGED CollapseVars

----------------------------------------------------------------------------
(* A call of collapse_s3() or collapse_ctrail() on a bucket holding logs of the
   first two days *)

TimesOfDay == {0, SecondsPerMinute, SecondsPerHour, SecondsPerDay - 1}
Instants == { d * SecondsPerDay + tod : d \in 0..MaxDay, tod \in TimesOfDay }
DateArgs == {NoDate} \cup { DateTime(t) : t \in Instants }

S3Dir == <<"l">>
OtherDir == <<"o">>
Account == <<"1">>
Region == <<"r">>
TailA == <<"a", ".", "g", "z">>
TailB == <<"b", ".", "g", "z">>

\* an S3 log key, named 2014-12-31-17-25-36-XXXX under the log directory
LogKey(dir, t, tail) == JoinEmpty(dir) \o dtm_to_s3_log(t, "S") \o Dash \o tail

\* a CloudTrail log key
TrailKey(t, tail) ==
    CtInDir(Account, Region, t) \o CtInFile(Account, Region, t) \o tail

\* the key the drivers give the collapsed logs of the first bucket of 1 July
FirstOutKey(fn, increment, outDir) ==
    IF fn = "s3"
    THEN JoinEmpty(IF outDir = None THEN S3Dir ELSE outDir[1])
             \o dtm_to_s3_log(0, IF increment \in StepIncrements THEN increment
                                 ELSE "d")
             \o Collapsed
    ELSE (IF outDir = None THEN CtOutDir(Account, Region) ELSE outDir[1])
             \o CtOutFile(Account, Region, 0)

\* the number of loop iterations a range takes
RangeSteps(d, step) ==
    IF d.dateStart.kind # "datetime" \/ d.dateEnd.kind # "datetime"
       \/ d.dateEnd.t < d.dateStart.t
    THEN 0
    ELSE ((d.dateEnd.t - d.dateStart.t) \div step) + 1

InitRange ==
    /\ \E fn \in {"s3", "ctrail"}, increment \in StepIncrements \cup {"x"},
          dateStart \in DateArgs, dateEnd \in DateArgs,
          outDir \in {None, <<OtherDir>>}, region \in {Str(Region), NotStr},
          c1 \in {NoObj, <<>>, <<31, 139>>}, c2 \in {NoObj, <<31>>},
          c3 \in {NoObj, <<31>>}, pre \in {NoObj, OtherData} :
         /\ fn = "s3" => region = Str(Region)
         /\ RangeSteps(DefaultDates(dateStart, dateEnd),
                       IF fn = "s3" /\ increment \in StepIncrements
                       THEN TimeStep(increment) ELSE SecondsPerDay) <= MaxSteps
         /\ store = (IF fn = "s3"
                     THEN LogKey(S3Dir, 0, TailA) :> c1
                          @@ LogKey(S3Dir, SecondsPerHour, TailB) :> c2
                          @@ LogKey(S3Dir, SecondsPerDay, TailA) :> c3
                     ELSE TrailKey(0, TailA) :> c1
                          @@ TrailKey(SecondsPerHour, TailB) :> c2
                          @@ TrailKey(SecondsPerDay, TailA) :> c3)
                    @@ FirstOutKey(fn, increment, outDir) :> pre
         /\ drv = [pc |-> "start", fn |-> fn, increment |-> increment,
                   dateStart |-> dateStart, dateEnd |-> dateEnd,
                   s3inDir |-> S3Dir, s3outDir |-> outDir,
                   region |-> region, account |-> Str(Account),
                   timeStep |-> 0, cur |-> NoDate, calls |-> <<>>,
                   results |-> <<>>, result |-> "running",
                   given |-> [dateStart |-> dateStart, dateEnd |-> dateEnd],
                   store0 |-> store]
    /\ files = <<>>
    /\ args = [inPrefix |-> <<>>, outFile |-> <<>>, outKey |-> <<>>, outMaxSize |-> 0]
    /\ hist = NewHist(store, files, args)
    /\ pc = "idle"
    /\ inKeys = <<>>
    /\ idx = 1
    /\ inSize = 0
    /\ wasGzip = None
    /\ outSize = None
    /\ outKeySize = None
    /\ result = "running"
    /\ run = 1
    /\ prev = "none"

NextRange ==
    \/ S3Start
    \/ S3Loop
    \/ S3Step
    \/ CtStart
    \/ CtLoop
    \/ CtStep
    \/ Open
    \/ StartDownloads
    \/ Download
    \/ CheckLocalSize
    \/ Upload
    \/ StartDeletes
    \/ DeleteKey
    \/ RemoveLocal

SpecRange == InitRange /\ [][NextRange]_vars

----------------------------------------------------------------------------
(* A call of collapse() while another client of the bucket adds objects under
   the prefix *)

MaxAdds == 1

WriterData == <<31, 139, 8>>

\* another client puts an object under inPrefix, at a key that was free when
\* collapse() was called, while collapse() runs
WriterAdds ==
    /\ drv.pc = "none"
    /\ pc \notin {"open", "done"}
    /\ Len(hist.added) < MaxAdds
    /\ \E k \in SrcKeys :
          /\ hist.store0[k] = NoObj
          /\ store[k] = NoObj
          /\ store' = PutObject(store, k, WriterData)
          /\ hist' = [hist EXCEPT !.added = Append(@, k)]
    /\ UNCHANGED <<files, args, pc, inKeys, idx, inSize, wasGzip, outSize,
                   outKeySize, result, run, prev, drv>>

NextWriter ==
    \/ Open
    \/ StartDownloads
    \/ Download
    \/ CheckLocalSize
    \/ Upload
    \/ StartDeletes
    \/ DeleteKey
    \/ RemoveLocal
    \/ Rerun
    \/ WriterAdds

SpecWriter == Init /\ [][NextWriter]_vars

----------------------------------------------------------------------------
(* A call of isGzip(fd, fn) on a file of up to MaxBytes bytes, read up to any
   position, with a file name or with something that is not a string *)

MaxBytes == 3

GzipBytes == {8, 31, 139}

\* the byte strings of up to n bytes
RECURSIVE BytesUpTo(_)
BytesUpTo(n) ==
    IF n = 0 THEN {<<>>}
    ELSE BytesUpTo(n - 1)
         \cup {Append(d, b) : d \in {e \in BytesUpTo(n - 1) : Len(e) = n - 1},
                              b \in GzipBytes}

FileNames == {Str(<<>>), Str(<<"g", "z">>), Str(<<".", "g", "z">>),
              Str(<<"a", ".", "g", "z">>), Str(<<"a", ".", "g", "z", "z">>),
              Str(<<"a", ".", "g">>), NotStr}

InitGzip ==
    /\ \E data \in BytesUpTo(MaxBytes), fn \in FileNames :
          \E pos \in 0..Len(data) :
             args = [fd |-> [data |-> data, pos |-> pos], fn |-> fn]
    /\ pc = "isGzip"
    /\ hist = [ret |-> FALSE, fd |-> args.fd]
    /\ store = <<>>
    /\ files = <<>>
    /\ inKeys = <<>>
    /\ idx = 1
    /\ inSize = 0
    /\ wasGzip = None
    /\ outSize = None
    /\ outKeySize = None
    /\ result = "running"
    /\ run = 1
    /\ prev = "none"
    /\ drv = NoDriver

\* isGzip(fd, fn) is called and returns
CallIsGzip ==
    /\ pc = "isGzip"
    /\ hist' = isGzip(args.fd, args.fn)
    /\ pc' = "returned"
    /\ UNCHANGED <<store, files, args, inKeys, idx, inSize, wasGzip, outSize,
                   outKeySize, result, run, prev, drv>>

NextGzip == CallIsGzip

SpecGzip == InitGzip /\ [][NextGzip]_vars

----------------------------------------------------------------------------
(* Properties of collapse() *)

Failed == pc = "done" /\ result \in CollapseFailures

\* the size the upload reported, a missing report counting as 0
ReportedSize == IF hist.putRet[1] = None THEN 0 ELSE hist.putRet[1][1]

RECURSIVE Concat(_)
Concat(seqs) == IF seqs = <<>> THEN <<>> ELSE Head(seqs) \o Concat(Tail(seqs))

RECURSIVE Sum(_)
Sum(ns) == IF ns = <<>> THEN 0 ELSE Head(ns) + Sum(Tail(ns))

\* the objects listed at line 32 and what the bucket held for them then
Listing == hist.listed[1]
ListedBytes == [i \in 1..Len(Listing) |-> hist.store0[Listing[i].name]]
ListedSizes == [i \in 1..Len(Listing) |-> Listing[i].size]

\* C1: a source object is deleted only after the upload has returned a size equal
\* to the size of the local file; an upload size mismatch means no deletion.
C1_DeleteAfterVerifiedUpload ==
    /\ hist.deleted # <<>> =>
          /\ hist.uploaded # None
          /\ hist.putRet # None
          /\ ReportedSize = Len(hist.uploaded[1])
    /\ (hist.putRet # None /\ ReportedSize # Len(hist.uploaded[1])) =>
          /\ hist.deleted = <<>>
          /\ pc = "done"
          /\ result = "UploadSizeMismatch"

C1_Witness ==
    /\ Len(hist.deleted) >= 2
    /\ Len(hist.uploaded[1]) > 0
    /\ hist.wrote

\* C2 as stated: whenever collapse fails the bucket is as it was before the call.
C2_FailureLeavesStoreUntouched == Failed => store = hist.store0

\* C2 amended: a failure before the upload leaves the bucket as it was; a failure
\* before the first deletion leaves every object that existed before the call
\* unchanged (the sources, and an object already at outKey), though the object
\* the upload wrote may remain at outKey.
C2_FailureKeepsSources ==
    Failed =>
        /\ hist.uploaded = None => store = hist.store0
        /\ hist.deleted = <<>> =>
              \A k \in DOMAIN store :
                 hist.store0[k] # NoObj => store[k] = hist.store0[k]
        /\ result \in {"MixedEncoding", "SizeCeiling", "LocalSizeMismatch"} =>
              hist.uploaded = None
        /\ result = "UploadSizeMismatch" => hist.deleted = <<>>

C2_Witness ==
    /\ Failed
    /\ result = "UploadSizeMismatch"
    /\ hist.wrote
    /\ store # hist.store0

\* C3: once collapse has returned or raised, the file at outFile does not exist.
C3_LocalFileGoneOnEveryExit ==
    (pc = "done" /\ result \in {"Success", "Empty", "MixedEncoding", "SizeCeiling",
                                "LocalSizeMismatch", "UploadSizeMismatch"}) =>
        files[args.outFile] = NoFile

\* C4 as stated: on an empty listing collapse leaves the bucket and the file at
\* outFile as they were before the call.
C4_EmptyLeavesFileAsBefore ==
    (pc = "done" /\ result = "Empty") =>
        /\ store = hist.store0
        /\ files[args.outFile] = hist.file0

\* C4 amended: on an empty listing collapse returns without uploading or deleting
\* anything, and no file exists at outFile afterwards, whether or not one existed
\* before the call.
C4_EmptyIsNoOpAndRemovesFile ==
    (pc = "done" /\ hist.listed = <<<<>>>>) =>
        /\ result = "Empty"
        /\ store = hist.store0
        /\ hist.uploaded = None
        /\ hist.deleted = <<>>
        /\ files[args.outFile] = NoFile

C4_Witness ==
    /\ pc = "done"
    /\ result = "Empty"
    /\ hist.file0 # NoFile
    /\ run = 1

\* the encoding class of the i-th downloaded object: compressed iff its bytes
\* begin 1f 8b and its name ends ".gz"
Compressed(i) ==
    LET d == hist.got[i].data
        n == hist.got[i].name
    IN /\ Len(d) >= 2 /\ d[1] = 31 /\ d[2] = 139
       /\ Len(n) >= 3 /\ n[Len(n) - 2] = "." /\ n[Len(n) - 1] = "g" /\ n[Len(n)] = "z"

\* C5: the first object's class is the expected class; collapse fails with the
\* mixed-encoding error exactly when a later object's class differs from it, and
\* then nothing has been uploaded or deleted and the bucket is as before.
C5_MixedEncodingRefused ==
    /\ hist.got # <<>> => wasGzip = <<Compressed(1)>>
    /\ (\E i \in 2..Len(hist.got) : Compressed(i) # Compressed(1))
          <=> (result = "MixedEncoding")
    /\ result = "MixedEncoding" =>
          /\ pc = "done"
          /\ hist.uploaded = None
          /\ hist.deleted = <<>>
          /\ store = hist.store0

C5_Witness ==
    /\ result = "MixedEncoding"
    /\ ~Compressed(1)
    /\ Compressed(Len(hist.got))

\* C6: with outMaxSize > 0, collapse fails with the size-ceiling error exactly
\* when the bytes appended exceed outMaxSize, and then the local file is gone,
\* nothing has been uploaded or deleted and the bucket is as before.
C6_SizeCeilingAborts ==
    /\ (args.outMaxSize > 0 /\ hist.appended > args.outMaxSize)
          <=> (result = "SizeCeiling")
    /\ result = "SizeCeiling" =>
          /\ pc = "done"
          /\ files[args.outFile] = NoFile
          /\ hist.uploaded = None
          /\ hist.deleted = <<>>
          /\ store = hist.store0

C6_Witness ==
    /\ result = "SizeCeiling"
    /\ Len(hist.got) >= 2
    /\ hist.file0 # NoFile

\* C7: once the upload is verified, the bytes uploaded are the listed objects'
\* bytes in listing order, their size is the sum of the listed sizes, and the
\* object the upload wrote at outKey holds exactly those bytes.
C7_UploadIsConcatenation ==
    (pc \in {"for_delete", "delete"} \/ result = "Success") =>
        /\ hist.uploaded = <<Concat(ListedBytes)>>
        /\ outSize = <<Sum(ListedSizes)>>
        /\ Len(hist.uploaded[1]) = Sum(ListedSizes)
        /\ (pc = "for_delete" /\ hist.wrote) => store[args.outKey] = Concat(ListedBytes)

C7_Witness ==
    /\ result = "Success"
    /\ hist.wrote
    /\ Len(Listing) >= 2
    /\ ListedBytes[1] # <<>>
    /\ ListedBytes[2] # <<>>
    /\ ListedBytes[1] # ListedBytes[2]

\* C8: after a successful collapse no object is left under the prefix, and a
\* second call with the same arguments lists nothing, uploads nothing, deletes
\* nothing and leaves the bucket, the first call's output included, unchanged.
C8_SecondRunIsNoOp ==
    /\ result = "Success" =>
          /\ ListKeys(store, args.inPrefix) = <<>>
          /\ \A i \in 1..Len(Listing) : store[Listing[i].name] = NoObj
    /\ (run >= 2 /\ prev = "Success") =>
          /\ pc \in {"open", "done"}
          /\ result \in {"running", "Empty", "StoreError"}
          /\ hist.listed \in {None, <<<<>>>>}
          /\ hist.uploaded = None
          /\ hist.deleted = <<>>
          /\ store = hist.store0

C8_Witness ==
    /\ run = 2
    /\ prev = "Success"
    /\ result = "Empty"
    /\ store[args.outKey] # NoObj
    /\ Len(store[args.outKey]) > 1

----------------------------------------------------------------------------
(* Properties of the range drivers *)

\* both dates were given as datetimes, the start not after the end
GivenRange ==
    /\ drv.dateStart.kind = "datetime"
    /\ drv.dateEnd.kind = "datetime"
    /\ drv.dateStart.t <= drv.dateEnd.t

DayGranularity ==
    \/ drv.fn = "s3" /\ drv.increment = "d"
    \/ drv.fn = "ctrail" /\ drv.increment = "d" /\ drv.region.isStr

\* the calendar day of an instant, and the text of a day of July 2014
CalendarDay(t) == t \div 86400
DayText(d) ==
    <<"2", "0", "1", "4", "-", "0", "7", "-">>
        \o <<Digits[((d + 1) \div 10) + 1], Digits[((d + 1) % 10) + 1]>>

OutDirText ==
    IF drv.s3outDir \in {<<OtherDir>>, <<OtherDir \o <<"/">>>>}
    THEN <<"o", "/">> ELSE <<"l", "/">>

\* C9: collapse_s3 at day granularity from midnight of day D to midnight of day
\* D+k calls collapse for D, D+1, ... in this order, one call at a time, each
\* with that day's input prefix and the output key <output dir><day>_collapsed,
\* and when it returns it has made exactly k+1 calls.
C9_OneCallPerDay ==
    (/\ drv.fn = "s3"
     /\ drv.increment = "d"
     /\ GivenRange
     /\ drv.dateStart.t % 86400 = 0
     /\ drv.dateEnd.t % 86400 = 0) =>
        LET D == CalendarDay(drv.dateStart.t)
            k == CalendarDay(drv.dateEnd.t) - D
            n == Len(drv.calls)
        IN /\ n <= k + 1
           /\ \A i \in 1..n :
                 /\ drv.calls[i].inPrefix = <<"l", "/">> \o DayText(D + i - 1) \o <<"-">>
                 /\ drv.calls[i].outKey = OutDirText \o DayText(D + i - 1) \o Collapsed
           /\ (drv.pc = "done" /\ drv.result = "returned") => n = k + 1
           /\ drv.pc = "done" => drv.result \in {"returned", "CollapseFailed"}
           /\ pc \notin {"idle", "done"} => (drv.pc = "call" /\ args = drv.calls[n])

C9_Witness ==
    /\ drv.fn = "s3"
    /\ drv.increment = "d"
    /\ GivenRange
    /\ drv.dateStart.t % 86400 = 0
    /\ drv.dateEnd.t = drv.dateStart.t + 2 * 86400
    /\ drv.pc = "done"
    /\ drv.result = "returned"
    /\ Len(drv.calls) = 3
    /\ ObjAt(store, <<"l", "/">> \o DayText(0) \o Collapsed) # NoObj
    /\ ObjAt(store, <<"l", "/">> \o DayText(1) \o Collapsed) # NoObj

\* C10: at day granularity, for any dateStart <= dateEnd, a driver that returns
\* has called collapse exactly once for every calendar day from dateStart's day
\* to dateEnd's day.
C10_EveryCalendarDayCollapsed ==
    (/\ DayGranularity
     /\ GivenRange
     /\ drv.pc = "done"
     /\ drv.result = "returned") =>
        LET first == CalendarDay(drv.dateStart.t)
            last == CalendarDay(drv.dateEnd.t)
        IN /\ Len(drv.calls) = last - first + 1
           /\ \A d \in first..last :
                 Cardinality({i \in 1..Len(drv.calls) :
                     drv.calls[i].outFile \in
                        {JoinEmpty(TempDir) \o DayText(d) \o Collapsed,
                         CtOutFile(Account, Region, d * 86400)}}) = 1

\* midnight of the day before Now
Yesterday == Midnight(Now.t) - SecondsPerDay

\* C11: each of dateStart and dateEnd that the caller leaves out is yesterday
\* once the driver has read its arguments (dateStart yesterday 00:00:00,
\* dateEnd yesterday 23:59:59), whatever the other one is; with both left out a
\* driver that returns has called collapse exactly once, for yesterday.
C11_UnspecifiedDatesDefaultToYesterday ==
    (/\ drv.pc # "start"
     /\ drv.fn = "s3" => drv.increment \in StepIncrements) =>
        /\ drv.given.dateStart = NoDate => drv.dateStart = DateTime(Yesterday)
        /\ drv.given.dateEnd = NoDate =>
               drv.dateEnd = DateTime(Yesterday + SecondsPerDay - 1)
        /\ (/\ drv.given.dateStart = NoDate
            /\ drv.given.dateEnd = NoDate
            /\ drv.pc = "done"
            /\ drv.result = "returned") =>
               /\ Len(drv.calls) = 1
               /\ drv.calls[1].outFile \in
                     {JoinEmpty(TempDir) \o dtm_to_s3_log(Yesterday, drv.increment)
                          \o Collapsed,
                      CtOutFile(Account, Region, Yesterday)}

\* the sources of the bucket of call `a` as the store held them when the driver
\* was called
BucketListing(a) == ListKeys(drv.store0, a.inPrefix)

\* the bytes of the sources of a listing, in listing order
BucketBytes(listing) ==
    Concat([j \in 1..Len(listing) |-> drv.store0[listing[j].name]])

\* every source of the listing is in the store as it was
BucketIntact(listing) ==
    \A j \in 1..Len(listing) : store[listing[j].name] = drv.store0[listing[j].name]

\* the store holds the output of call `a`: the bytes of its sources
BucketCollapsed(a, listing) == ObjAt(store, a.outKey) = BucketBytes(listing)

\* C12: a collapse that fails is the last call the driver makes: the driver ends
\* with that failure and starts no collapse for a later bucket; and when the
\* driver has ended by that failure, every bucket it has called collapse for
\* has all its sources as they were, or its output is in the store with the
\* bytes of all its sources.
C12_FailureStopsTheRange ==
    /\ \A i \in 1..Len(drv.results) :
          drv.results[i] \in CollapseFailures =>
             /\ i = Len(drv.calls)
             /\ drv.pc = "done"
             /\ drv.result = "CollapseFailed"
    /\ drv.result = "CollapseFailed" =>
          /\ pc = "done"
          /\ result \in CollapseFailures
          /\ drv.results[Len(drv.calls)] = result
          /\ \A i \in 1..Len(drv.calls) :
                LET listing == BucketListing(drv.calls[i])
                IN BucketIntact(listing) \/ BucketCollapsed(drv.calls[i], listing)

\* C13: a driver given a start later than its end (both given, both datetimes)
\* fails, and has then called collapse for no bucket and left the store as it
\* was.
C13_WrongDatesFailBeforeCollapse ==
    (/\ drv.given.dateStart.kind = "datetime"
     /\ drv.given.dateEnd.kind = "datetime"
     /\ drv.given.dateEnd.t < drv.given.dateStart.t
     /\ drv.increment \in StepIncrements) =>
        /\ drv.calls = <<>>
        /\ store = drv.store0
        /\ drv.pc = "done" => drv.result \in {"DatesWrong", "TypeError"}

\* C14: a driver given an increment other than d, H, M fails at once, having
\* called collapse for no bucket and left the store as it was; given one of d,
\* H, M it steps through the range by a day, an hour, a minute.
C14_IncrementCheckedThenFollowed ==
    drv.pc # "start" =>
       IF drv.increment \notin StepIncrements
       THEN /\ drv.pc = "done"
            /\ drv.result = "UndefinedIncrement"
            /\ drv.calls = <<>>
            /\ store = drv.store0
       ELSE drv.pc \in {"loop", "call"} => drv.timeStep = TimeStep(drv.increment)

----------------------------------------------------------------------------
(* Properties of collapse(), continued *)

\* an object collapse takes for compressed
GzipObject(name, data) ==
    /\ Len(data) >= 2
    /\ data[1] = 31
    /\ data[2] = 139
    /\ Len(name) >= 3
    /\ SubSeq(name, Len(name) - 2, Len(name)) = <<".", "g", "z">>

\* what a call of collapse(a) on the bucket `st` comes to when no store call
\* fails and every transfer is complete: how it ends and the bytes it hands to
\* the upload
Expected(st, a) ==
    LET keys == ListKeys(st, a.inPrefix)
        gz(i) == GzipObject(keys[i].name, st[keys[i].name])
        bytes(i) == Concat([j \in 1..i |-> st[keys[j].name]])
        stops == {i \in 1..Len(keys) :
                     \/ gz(i) # gz(1)
                     \/ a.outMaxSize > 0 /\ Len(bytes(i)) > a.outMaxSize}
        stop == CHOOSE i \in stops : \A j \in stops : i <= j
        all == bytes(Len(keys))
    IN IF keys = <<>> THEN [result |-> "Empty", uploaded |-> None]
       ELSE IF stops # {}
       THEN [result |-> IF gz(stop) # gz(1) THEN "MixedEncoding" ELSE "SizeCeiling",
             uploaded |-> None]
       ELSE IF ObjAt(st, a.outKey) # NoObj /\ Len(all) # 0
       THEN [result |-> "UploadSizeMismatch", uploaded |-> <<all>>]
       ELSE [result |-> "Success", uploaded |-> <<all>>]

\* so far in this call no store call has failed and every transfer was complete
FaultFree ==
    /\ result # "StoreError"
    /\ \A i \in 1..Len(hist.got) : hist.got[i].data = hist.store0[hist.got[i].name]
    /\ hist.wrote => hist.putRet = <<<<Len(hist.uploaded[1])>>>>

RerunAfterFailure ==
    run > 1 /\ prev \in {"MixedEncoding", "SizeCeiling", "LocalSizeMismatch"}

\* C15: how a call ends and what it uploads depend on the bucket and the
\* arguments only, never on what is at outFile when it begins, when no store
\* call fails and every transfer is complete; a call that follows one failed
\* with mixed encoding, size ceiling or local size mismatch finds the bucket as
\* the failed call found it, and its file holds the downloads of this call only.
C15_RerunStartsFromScratch ==
    /\ (pc = "done" /\ FaultFree) =>
          /\ result = Expected(hist.store0, args).result
          /\ hist.uploaded = Expected(hist.store0, args).uploaded
    /\ RerunAfterFailure =>
          /\ hist.store0 = hist.before
          /\ pc \in {"for_download", "download", "upload"} =>
                files[args.outFile] =
                   Concat([i \in 1..Len(hist.got) |-> hist.got[i].data])

C15_Witness ==
    /\ RerunAfterFailure
    /\ hist.file0 \notin {NoFile, <<>>}
    /\ pc = "done"
    /\ FaultFree
    /\ result = "Success"
    /\ Len(hist.uploaded[1]) > 0

\* every object the bucket held when the call began is as it was
SourcesUntouched ==
    \A k \in DOMAIN hist.store0 :
       hist.store0[k] # NoObj => store[k] = hist.store0[k]

\* C16: when the size the upload reports (none reported counting as 0) is not the
\* size of the local file, collapse fails with the upload size mismatch, no
\* object that was in the bucket is deleted or changed, and the object the upload
\* wrote is still at outKey; collapse fails that way in no other case.
C16_UploadMismatchKeepsUpload ==
    /\ (hist.putRet # None /\ ReportedSize # Len(hist.uploaded[1])) =>
          /\ pc = "done"
          /\ result = "UploadSizeMismatch"
          /\ hist.deleted = <<>>
          /\ SourcesUntouched
          /\ ObjAt(store, args.outKey) # NoObj
          /\ hist.wrote => ObjAt(store, args.outKey) \in Delivered(hist.uploaded[1])
    /\ result = "UploadSizeMismatch" =>
          /\ hist.putRet # None
          /\ ReportedSize # Len(hist.uploaded[1])

C16_Witness ==
    /\ result = "UploadSizeMismatch"
    /\ hist.wrote
    /\ hist.putRet = <<None>>
    /\ Len(hist.uploaded[1]) > 0
    /\ Len(Listing) >= 2

\* all the objects listed have been downloaded and appended, and the size of the
\* file has been read (line 75)
AllAppended == outSize # None /\ Len(hist.got) = Len(Listing)

\* C17: when all sources are appended and the size of the file is not the sum of
\* the sizes the listing reported, collapse fails with the local size mismatch;
\* it has then handed nothing to the upload, deleted nothing and left the bucket
\* as it was; and whatever is handed to the upload has that sum as its size.
C17_LocalMismatchStopsBeforeUpload ==
    /\ (AllAppended /\ outSize[1] # Sum(ListedSizes)) =>
          /\ pc = "done"
          /\ result = "LocalSizeMismatch"
    /\ result = "LocalSizeMismatch" =>
          /\ AllAppended
          /\ outSize[1] # Sum(ListedSizes)
          /\ hist.uploaded = None
          /\ hist.putRet = None
          /\ hist.deleted = <<>>
          /\ store = hist.store0
    /\ hist.uploaded # None => Len(hist.uploaded[1]) = Sum(ListedSizes)

C17_Witness ==
    /\ result = "LocalSizeMismatch"
    /\ Len(Listing) >= 2
    /\ outSize[1] > 0

\* C20: when the upload finds an object at outKey already, and so writes nothing
\* and reports no size, that object is left as it was and no source is deleted,
\* whatever the sources hold (outKey being outside inPrefix, so that the object
\* is not a source itself).
C20_ExistingOutputBlocksDeletion ==
    (/\ hist.putRet = <<None>>
     /\ ~hist.wrote
     /\ ~StartsWith(args.outKey, args.inPrefix)) =>
       /\ ObjAt(store, args.outKey) = ObjAt(hist.store0, args.outKey)
       /\ hist.deleted = <<>>

----------------------------------------------------------------------------
(* Properties of isGzip() *)

EndsGz(name) ==
    /\ Len(name) >= 3
    /\ name[Len(name) - 2] = "."
    /\ name[Len(name) - 1] = "g"
    /\ name[Len(name)] = "z"

\* C18: isGzip(fd, fn) returns True exactly when the file begins with the bytes
\* 1f 8b and fn is not a string or ends in ".gz", whatever the file holds (no
\* byte, one byte) and whatever the name; the file is left with the bytes and
\* the read position it had.
C18_GzipIffMagicAndExtension ==
    pc = "returned" =>
       LET data == args.fd.data
       IN /\ hist.ret <=> (/\ Len(data) >= 2
                           /\ data[1] = 31
                           /\ data[2] = 139
                           /\ ~args.fn.isStr \/ EndsGz(args.fn.val))
          /\ hist.fd = args.fd

C18_Witness ==
    /\ pc = "returned"
    /\ hist.ret
    /\ ~args.fn.isStr
    /\ args.fd.pos = 1
    /\ Len(args.fd.data) = 3

----------------------------------------------------------------------------
(* Properties of collapse() beside another writer *)

\* C19: every source object collapse has deleted was downloaded by this call
\* with all its bytes and is part of what the upload wrote, whenever another
\* client adds objects under the prefix.
C19_DeletedWereAppended ==
    \A i \in 1..Len(hist.deleted) :
       (hist.wrote /\ hist.deleted[i] # args.outKey) =>
          /\ hist.uploaded # None
          /\ \E j \in 1..Len(hist.got) :
                /\ hist.got[j].name = hist.deleted[i]
                /\ hist.got[j].data =
                      IF \E n \in 1..Len(hist.added) : hist.added[n] = hist.deleted[i]
                      THEN WriterData ELSE hist.store0[hist.deleted[i]]

====
